---- MODULE Spec2Model ----
(***************************************************************************)
(* RadioAnnouncer (utils/RadioAnnouncer.ts): the announcement scheduling   *)
(* and cancellation core of the boombox.  The class fields, the browser's  *)
(* table of pending timeouts, the generation promises, the play attempts   *)
(* suspended on a promise and the transient audio nodes are the state; one *)
(* action per public method, timer callback, awaited stage and event.      *)
(*                                                                         *)
(* JavaScript is single threaded: a handler or callback runs to the next   *)
(* await without interruption, and continuations of a resolved promise     *)
(* (microtasks) all run before the next event or timer callback.           *)
(***************************************************************************)
EXTENDS Integers, Sequences, FiniteSets, TLC

VARIABLES
    timer,                 \* this.timer: handle of the countdown timeout, 0 = null
    debounceTimer,         \* this.debounceTimer: handle of the settle timeout, 0 = null
    currentSource,         \* this.currentSource: node id, 0 = null
    isPlayingMusic,        \* this.isPlayingMusic
    currentStationName,    \* this.currentStationName, NoStation = null
    currentFrequency,      \* this.currentFrequency, NoStation = null
    stationId,             \* this.stationId
    pendingBufferPromise,  \* this.pendingBufferPromise: index into gens, 0 = null
    timeouts,              \* window's pending timeouts (armed, not fired, not cleared)
    gens,                  \* the promises returned by generateAnnouncement, in call order
    waiters,               \* playPendingAnnouncement calls suspended at the await, in order
    nodes,                 \* gain/source nodes connected to the shared output nodes
    lastCall,              \* history: the notification delivered last; its
                           \* field nth alternates, so each delivery shows
    sinceTuning,           \* history: whether no playback-state notification has
                           \* arrived since the last effective station change,
                           \* and the sources started since then while that is so
    activeIndex,           \* PromptDjMidi.activeIndex
    prompts,               \* PromptDjMidi.prompts: the weight of prompt-i, by i
    rotation,              \* PromptDjMidi.rotation, in hundredths of a degree
    startAngle,            \* PromptDjMidi.startAngle, in hundredths of a degree
    startRotation,         \* PromptDjMidi.startRotation, in hundredths of a degree
    dragging,              \* the dial's pointermove/pointerup listeners are attached
    playbackState          \* PromptDjMidi.playbackState

vars == <<timer, debounceTimer, currentSource, isPlayingMusic, currentStationName,
          currentFrequency, stationId, pendingBufferPromise, timeouts, gens,
          waiters, nodes, lastCall, sinceTuning, activeIndex, prompts, rotation,
          startAngle, startRotation, dragging, playbackState>>

\* the fields of the dial
dial == <<activeIndex, prompts, rotation, startAngle, startRotation, dragging,
          playbackState>>

(***************************************************************************)
(* Bounds of the model.                                                    *)
(***************************************************************************)
\* effective station changes explored (cap on stationId)
MaxStationId == 2
\* play attempts suspended plus audio nodes connected at one time
MaxInFlight == 2
\* station changes made by turning the dial
MaxTurns == 3

(***************************************************************************)
(* Program constants and input domains.                                    *)
(***************************************************************************)
D_settle == 800
D_announce == 15000

\* the granularity at which time is observed between deadlines
Tick == D_settle \div 2

NoStation == "<null>"

\* index.tsx: the station names, and the dial positions the model tunes to
DEFAULT_PROMPTS ==
    <<"Bossa Nova", "Chillwave", "Drum and Bass", "Post Punk", "Shoegaze", "Funk",
      "Chiptune", "Lush Strings", "Sparkling Arpeggios", "Staccato Rhythms",
      "Punchy Kick", "Dubstep", "K Pop", "Neo Soul", "Trip Hop", "Thrash">>
Dial == {0, 1}

\* Number.prototype.toFixed(1) of tenths/10, for a non-negative value
toFixed1(tenths) == ToString(tenths \div 10) \o "." \o ToString(tenths % 10)

\* (88.0 + (index * 1.5)).toFixed(1)
Frequency(index) == toFixed1(880 + index * 15)

StationText(index) == DEFAULT_PROMPTS[index + 1]

\* what an awaited service call can deliver
StageOutcomes == {"ok", "empty", "throws"}
\* what the audio-graph construction of a play attempt can do
WiringOutcomes == {"ok", "throwsEarly", "throwsLate"}

(***************************************************************************)
(* window.setTimeout / clearTimeout.                                       *)
(***************************************************************************)
Handles == 1..8

\* setTimeout returns a handle that names no other timeout the object still
\* refers to; which number it is never matters, so the smallest is taken
FreshHandle(live, held) ==
    CHOOSE h \in Handles :
        /\ h \notin {t.h : t \in live} \cup held
        /\ \A k \in Handles : k < h => k \in {t.h : t \in live} \cup held

clearTimeout(live, h) == {t \in live : t.h # h}

Timeout(h, kind, delay, id, name, freq) ==
    [h |-> h, kind |-> kind, rem |-> delay, myId |-> id,
     stationName |-> name, frequency |-> freq]

Live(kind) == {t \in timeouts : t.kind = kind}

(***************************************************************************)
(* The object and its environment as one value, so that a method is a      *)
(* function from the state before the call to the state after it.          *)
(***************************************************************************)
World ==
    [timer |-> timer, debounceTimer |-> debounceTimer,
     currentSource |-> currentSource, isPlayingMusic |-> isPlayingMusic,
     currentStationName |-> currentStationName,
     currentFrequency |-> currentFrequency, stationId |-> stationId,
     pendingBufferPromise |-> pendingBufferPromise, timeouts |-> timeouts,
     gens |-> gens, waiters |-> waiters, nodes |-> nodes]

\* the object and its environment are w
Is(w) ==
    /\ timer = w.timer
    /\ debounceTimer = w.debounceTimer
    /\ currentSource = w.currentSource
    /\ isPlayingMusic = w.isPlayingMusic
    /\ currentStationName = w.currentStationName
    /\ currentFrequency = w.currentFrequency
    /\ stationId = w.stationId
    /\ pendingBufferPromise = w.pendingBufferPromise
    /\ timeouts = w.timeouts
    /\ gens = w.gens
    /\ waiters = w.waiters
    /\ nodes = w.nodes

Becomes(w) ==
    /\ timer' = w.timer
    /\ debounceTimer' = w.debounceTimer
    /\ currentSource' = w.currentSource
    /\ isPlayingMusic' = w.isPlayingMusic
    /\ currentStationName' = w.currentStationName
    /\ currentFrequency' = w.currentFrequency
    /\ stationId' = w.stationId
    /\ pendingBufferPromise' = w.pendingBufferPromise
    /\ timeouts' = w.timeouts
    /\ gens' = w.gens
    /\ waiters' = w.waiters
    /\ nodes' = w.nodes

(***************************************************************************)
(* RadioAnnouncer's methods.                                               *)
(***************************************************************************)
\* variant: the handle is forgotten but the timeout is not cleared
stopTimer_keepsTimeout(w) == [w EXCEPT !.timer = 0]

stopTimer(w) ==
    IF w.timer # 0
    THEN [w EXCEPT !.timeouts = clearTimeout(@, w.timer), !.timer = 0]
    ELSE w

\* variant: the countdown is armed without stopping the one already armed
startTimer_noStop(w) ==
    IF w.isPlayingMusic /\ w.currentStationName # NoStation
    THEN LET h == FreshHandle(w.timeouts, {w.debounceTimer, w.timer}) IN
         [w EXCEPT !.timer = h,
                   !.timeouts = @ \cup {Timeout(h, "countdown", D_announce,
                                                 w.stationId, NoStation, NoStation)}]
    ELSE w

\* variant: the countdown is shorter than the settle period
startTimer_shorterThanSettle(w) ==
    LET s == stopTimer(w) IN
    IF s.isPlayingMusic /\ s.currentStationName # NoStation
    THEN LET h == FreshHandle(s.timeouts, {s.debounceTimer}) IN
         [s EXCEPT !.timer = h,
                   !.timeouts = @ \cup {Timeout(h, "countdown", D_settle \div 2,
                                                 s.stationId, NoStation, NoStation)}]
    ELSE s

startTimer(w) ==
    LET s == stopTimer(w) IN
    IF s.isPlayingMusic /\ s.currentStationName # NoStation
    THEN LET h == FreshHandle(s.timeouts, {s.debounceTimer}) IN
         [s EXCEPT !.timer = h,
                   !.timeouts = @ \cup {Timeout(h, "countdown", D_announce,
                                                 s.stationId, NoStation, NoStation)}]
    ELSE s

\* variant: pausing leaves the countdown running and resuming keeps it
setMusicPlaying_pauseKeepsTimer(w, playing) ==
    LET s == [w EXCEPT !.isPlayingMusic = playing] IN
    IF playing /\ s.currentStationName # NoStation
                /\ ~(\E t \in s.timeouts : t.h = s.timer)
    THEN startTimer(s)
    ELSE s

\* variant: pausing also cancels the settle timeout
setMusicPlaying_pauseClearsSettle(w, playing) ==
    LET s == [w EXCEPT !.isPlayingMusic = playing] IN
    IF playing
    THEN IF s.currentStationName # NoStation THEN startTimer(s) ELSE s
    ELSE LET u == stopTimer(s) IN
         [u EXCEPT !.timeouts = clearTimeout(@, u.debounceTimer)]

setMusicPlaying(w, playing) ==
    LET s == [w EXCEPT !.isPlayingMusic = playing] IN
    IF playing
    THEN IF s.currentStationName # NoStation THEN startTimer(s) ELSE s
    ELSE stopTimer(s)

\* variant: the epoch restarts from 1 instead of counting on
onStationChange_epochReused(w, stationName, frequency) ==
    IF w.currentStationName = stationName THEN w
    ELSE
    LET a == [w EXCEPT !.currentStationName = stationName,
                       !.currentFrequency = frequency,
                       !.stationId = 1,
                       !.pendingBufferPromise = 0]
        b == stopTimer(a)
        c == IF b.debounceTimer # 0
             THEN [b EXCEPT !.timeouts = clearTimeout(@, b.debounceTimer)]
             ELSE b
        d == IF c.isPlayingMusic THEN startTimer(c) ELSE c
        h == FreshHandle(d.timeouts, {d.timer})
    IN [d EXCEPT !.debounceTimer = h,
                 !.timeouts = @ \cup {Timeout(h, "settle", D_settle, 0,
                                               stationName, frequency)}]

\* variant: the pending result of the station left behind is kept
onStationChange_keepsPending(w, stationName, frequency) ==
    IF w.currentStationName = stationName THEN w
    ELSE
    LET a == [w EXCEPT !.currentStationName = stationName,
                       !.currentFrequency = frequency,
                       !.stationId = @ + 1]
        b == stopTimer(a)
        c == IF b.debounceTimer # 0
             THEN [b EXCEPT !.timeouts = clearTimeout(@, b.debounceTimer)]
             ELSE b
        d == IF c.isPlayingMusic THEN startTimer(c) ELSE c
        h == FreshHandle(d.timeouts, {d.timer})
    IN [d EXCEPT !.debounceTimer = h,
                 !.timeouts = @ \cup {Timeout(h, "settle", D_settle, 0,
                                               stationName, frequency)}]

\* variant: the dedup guard also compares the frequency
onStationChange_dedupOnFrequency(w, stationName, frequency) ==
    LET a == [w EXCEPT !.currentStationName = stationName,
                       !.currentFrequency = frequency,
                       !.stationId = @ + 1,
                       !.pendingBufferPromise = 0]
        b == stopTimer(a)
        c == IF b.debounceTimer # 0
             THEN [b EXCEPT !.timeouts = clearTimeout(@, b.debounceTimer)]
             ELSE b
        d == IF c.isPlayingMusic THEN startTimer(c) ELSE c
        h == FreshHandle(d.timeouts, {d.timer})
    IN IF w.currentStationName = stationName /\ w.currentFrequency = frequency
       THEN w
       ELSE [d EXCEPT !.debounceTimer = h,
                      !.timeouts = @ \cup {Timeout(h, "settle", D_settle, 0,
                                                    stationName, frequency)}]

\* variant: the settle timeout already pending is kept and decides the request
onStationChange_leadingEdge(w, stationName, frequency) ==
    IF w.currentStationName = stationName THEN w
    ELSE
    LET a == [w EXCEPT !.currentStationName = stationName,
                       !.currentFrequency = frequency,
                       !.stationId = @ + 1,
                       !.pendingBufferPromise = 0]
        b == stopTimer(a)
        d == IF b.isPlayingMusic THEN startTimer(b) ELSE b
        h == FreshHandle(d.timeouts, {d.timer, d.debounceTimer})
    IN IF \E t \in d.timeouts : t.h = d.debounceTimer
       THEN d
       ELSE [d EXCEPT !.debounceTimer = h,
                      !.timeouts = @ \cup {Timeout(h, "settle", D_settle, 0,
                                                    stationName, frequency)}]

\* variant: the pending settle timeout is not cleared before the new one is armed
onStationChange_noClear(w, stationName, frequency) ==
    IF w.currentStationName = stationName THEN w
    ELSE
    LET a == [w EXCEPT !.currentStationName = stationName,
                       !.currentFrequency = frequency,
                       !.stationId = @ + 1,
                       !.pendingBufferPromise = 0]
        b == stopTimer(a)
        d == IF b.isPlayingMusic THEN startTimer(b) ELSE b
        h == FreshHandle(d.timeouts, {d.timer, d.debounceTimer})
    IN [d EXCEPT !.debounceTimer = h,
                 !.timeouts = @ \cup {Timeout(h, "settle", D_settle, 0,
                                               stationName, frequency)}]

onStationChange(w, stationName, frequency) ==
    IF w.currentStationName = stationName THEN w
    ELSE
    LET a == [w EXCEPT !.currentStationName = stationName,
                       !.currentFrequency = frequency,
                       !.stationId = @ + 1,
                       !.pendingBufferPromise = 0]
        b == stopTimer(a)
        c == IF b.debounceTimer # 0
             THEN [b EXCEPT !.timeouts = clearTimeout(@, b.debounceTimer)]
             ELSE b
        d == IF c.isPlayingMusic THEN startTimer(c) ELSE c
        h == FreshHandle(d.timeouts, {d.timer})
    IN [d EXCEPT !.debounceTimer = h,
                 !.timeouts = @ \cup {Timeout(h, "settle", D_settle, 0,
                                               stationName, frequency)}]

\* the call generateAnnouncement(id, station, freq) up to its first await
generateAnnouncement(id, station, freq) ==
    [id |-> id, station |-> station, freq |-> freq, stage |-> "script",
     buffer |-> FALSE]

\* variant: the countdown is restarted when the generation is requested
settleCallback_restartsCountdown(w, t) ==
    startTimer([w EXCEPT !.gens = Append(@, generateAnnouncement(w.stationId,
                                                 t.stationName, t.frequency)),
                         !.pendingBufferPromise = Len(w.gens) + 1])

\* the settle timeout's callback (the arrow function of onStationChange)
settleCallback(w, t) ==
    [w EXCEPT !.gens = Append(@, generateAnnouncement(w.stationId, t.stationName,
                                                      t.frequency)),
              !.pendingBufferPromise = Len(w.gens) + 1]

Resolved(g, buffer) == [g EXCEPT !.stage = "done", !.buffer = buffer]

\* variant: the script stage's failure is not caught: an error it throws
\* rejects the promise and an empty script is passed on to the speech stage
generateAnnouncementStep_scriptUnguarded(w, i, outcome) ==
    LET g == w.gens[i]
        next ==
            CASE g.stage = "script" /\ outcome = "throws" ->
                                       [g EXCEPT !.stage = "rejected"]
              [] outcome = "throws" -> Resolved(g, FALSE)
              [] g.stage = "decode" -> Resolved(g, TRUE)
              [] w.stationId # g.id -> Resolved(g, FALSE)
              [] g.stage = "script" -> [g EXCEPT !.stage = "tts"]
              [] outcome = "empty"  -> Resolved(g, FALSE)
              [] OTHER              -> [g EXCEPT !.stage = "decode"]
    IN [w EXCEPT !.gens[i] = next]

\* generateAnnouncement from the completion of the stage it awaits to the
\* next await or to its return
generateAnnouncementStep(w, i, outcome) ==
    LET g == w.gens[i]
        next ==
            CASE outcome = "throws" -> Resolved(g, FALSE)
              [] g.stage = "decode" -> Resolved(g, TRUE)
              [] w.stationId # g.id -> Resolved(g, FALSE)
              [] outcome = "empty"  -> Resolved(g, FALSE)
              [] g.stage = "script" -> [g EXCEPT !.stage = "tts"]
              [] OTHER              -> [g EXCEPT !.stage = "decode"]
    IN [w EXCEPT !.gens[i] = next]

\* the suspended calls whose awaited promise is resolved, and the one that
\* continues first (continuations run in the order they were registered)
Runnable(w) == {k \in 1..Len(w.waiters) : w.gens[w.waiters[k].gen].stage = "done"}
FirstRunnable(w) == CHOOSE k \in Runnable(w) : \A j \in Runnable(w) : k <= j
Without(q, k) == SubSeq(q, 1, k - 1) \o SubSeq(q, k + 1, Len(q))

\* variant: a result that is not ready when the countdown fires is not awaited
playPendingAnnouncement_noWait(w, id) ==
    IF w.stationId # id \/ ~w.isPlayingMusic THEN w
    ELSE IF w.pendingBufferPromise = 0 THEN w
    ELSE IF w.gens[w.pendingBufferPromise].stage # "done" THEN w
    ELSE [w EXCEPT !.waiters = Append(@, [id |-> id,
                                          gen |-> w.pendingBufferPromise])]

\* playPendingAnnouncement(id) up to its await
playPendingAnnouncement(w, id) ==
    IF w.stationId # id \/ ~w.isPlayingMusic THEN w
    ELSE IF w.pendingBufferPromise = 0 THEN w
    ELSE [w EXCEPT !.waiters = Append(@, [id |-> id,
                                          gen |-> w.pendingBufferPromise])]

FreshNode(w) ==
    CHOOSE n \in Handles :
        /\ n \notin {x.n : x \in w.nodes} \cup {w.currentSource}
        /\ \A k \in Handles :
              k < n => k \in {x.n : x \in w.nodes} \cup {w.currentSource}

\* variant: the pending result is cleared once its playback has started
audioOutputWiring_consumes(w, gen, outcome) ==
    LET n == FreshNode(w) IN
    CASE outcome = "throwsEarly" -> w
      [] outcome = "throwsLate" ->
           [w EXCEPT !.nodes = @ \cup {[n |-> n, gen |-> gen, started |-> FALSE]}]
      [] OTHER ->
           [w EXCEPT !.nodes = @ \cup {[n |-> n, gen |-> gen, started |-> TRUE]},
                     !.currentSource = n,
                     !.pendingBufferPromise = 0]

\* lines 165-187: the gain and source nodes of one play attempt
audioOutputWiring(w, gen, outcome) ==
    LET n == FreshNode(w) IN
    CASE outcome = "throwsEarly" -> w
      [] outcome = "throwsLate" ->
           [w EXCEPT !.nodes = @ \cup {[n |-> n, gen |-> gen, started |-> FALSE]}]
      [] OTHER ->
           [w EXCEPT !.nodes = @ \cup {[n |-> n, gen |-> gen, started |-> TRUE]},
                     !.currentSource = n]

\* variant: after the await only the resolved value is looked at
playPendingAnnouncementResume_noRecheck(w, outcome) ==
    LET k == FirstRunnable(w)
        wt == w.waiters[k]
        u == [w EXCEPT !.waiters = Without(@, k)]
    IN IF ~u.gens[wt.gen].buffer
       THEN u
       ELSE audioOutputWiring(u, wt.gen, outcome)

\* variant: isPlayingMusic is not checked again after the await
playPendingAnnouncementResume_noPlayingCheck(w, outcome) ==
    LET k == FirstRunnable(w)
        wt == w.waiters[k]
        u == [w EXCEPT !.waiters = Without(@, k)]
    IN IF u.stationId # wt.id \/ ~u.gens[wt.gen].buffer
       THEN u
       ELSE audioOutputWiring(u, wt.gen, outcome)

\* variant: the resolved value is not checked after the await
playPendingAnnouncementResume_noBufferCheck(w, outcome) ==
    LET k == FirstRunnable(w)
        wt == w.waiters[k]
        u == [w EXCEPT !.waiters = Without(@, k)]
    IN IF u.stationId # wt.id \/ ~u.isPlayingMusic
       THEN u
       ELSE audioOutputWiring(u, wt.gen, outcome)

\* variant: the epoch is not checked again after the await
playPendingAnnouncementResume_noEpochCheck(w, outcome) ==
    LET k == FirstRunnable(w)
        wt == w.waiters[k]
        u == [w EXCEPT !.waiters = Without(@, k)]
    IN IF ~u.isPlayingMusic \/ ~u.gens[wt.gen].buffer
       THEN u
       ELSE audioOutputWiring(u, wt.gen, outcome)

\* playPendingAnnouncement from the resolution of the awaited promise on
playPendingAnnouncementResume(w, outcome) ==
    LET k == FirstRunnable(w)
        wt == w.waiters[k]
        u == [w EXCEPT !.waiters = Without(@, k)]
    IN IF u.stationId # wt.id \/ ~u.isPlayingMusic \/ ~u.gens[wt.gen].buffer
       THEN u
       ELSE audioOutputWiring(u, wt.gen, outcome)

\* variant: the end of an announcement arms the countdown for the next one
onended_rearmsCountdown(w, x) ==
    startTimer([w EXCEPT !.currentSource = IF @ = x.n THEN 0 ELSE @,
                         !.nodes = @ \ {x}])

\* variant: the handle is cleared whichever source ended
onended_alwaysClears(w, x) ==
    [w EXCEPT !.currentSource = 0, !.nodes = @ \ {x}]

\* source.onended
onended(w, x) ==
    [w EXCEPT !.currentSource = IF @ = x.n THEN 0 ELSE @,
              !.nodes = @ \ {x}]

(***************************************************************************)
(* PromptDjMidi: the tuning dial.  Angles are counted in hundredths of a   *)
(* degree, in which the half segment of 11.25 degrees is a whole number.   *)
(***************************************************************************)
Circle == 36000
HalfTurn == 18000

\* promptKeys.length
Count == Len(DEFAULT_PROMPTS)

\* the pointer angles tried: getAngleFromEvent returns a value in [0, 360)
Angles == {0, 1124, 1125, 9000, 18000, 34875}

\* index.tsx buildInitialPrompts: the weight of prompt-i
buildInitialPrompts == [i \in 0..Count - 1 |-> IF i = 0 THEN 1 ELSE 0]

calculateAngleForIndex(index) == (index * Circle) \div Count

Max(a, b) == IF a >= b THEN a ELSE b
Min(a, b) == IF a <= b THEN a ELSE b

\* the dial as one value
Dj ==
    [activeIndex |-> activeIndex, prompts |-> prompts, rotation |-> rotation,
     startAngle |-> startAngle, startRotation |-> startRotation,
     dragging |-> dragging, playbackState |-> playbackState]

\* the dial is d
DjIs(d) ==
    /\ activeIndex = d.activeIndex
    /\ prompts = d.prompts
    /\ rotation = d.rotation
    /\ startAngle = d.startAngle
    /\ startRotation = d.startRotation
    /\ dragging = d.dragging
    /\ playbackState = d.playbackState

DjBecomes(d) ==
    /\ activeIndex' = d.activeIndex
    /\ prompts' = d.prompts
    /\ rotation' = d.rotation
    /\ startAngle' = d.startAngle
    /\ startRotation' = d.startRotation
    /\ dragging' = d.dragging
    /\ playbackState' = d.playbackState

\* the constructor, given the initial prompts
PromptDjMidi(initialPrompts) ==
    LET keys == {k \in 0..Count - 1 : initialPrompts[k] = 1}
        activeKey == CHOOSE k \in keys : \A j \in keys : k <= j
    IN [activeIndex |-> IF keys # {} THEN activeKey ELSE 0,
        prompts |-> initialPrompts,
        rotation |-> IF keys # {} THEN calculateAngleForIndex(activeKey) ELSE 0,
        startAngle |-> 0, startRotation |-> 0, dragging |-> FALSE,
        playbackState |-> "stopped"]

\* variant: the prompt selected gets weight 1 and the others keep theirs
setStation_keepsOthers(d, index) ==
    IF index = d.activeIndex THEN d
    ELSE [d EXCEPT !.activeIndex = index, !.prompts[index] = 1]

\* setStation(index), up to the dispatch of prompts-changed
setStation(d, index) ==
    IF index = d.activeIndex THEN d
    ELSE [d EXCEPT !.activeIndex = index,
                   !.prompts = [i \in 0..Count - 1 |-> IF i = index THEN 1 ELSE 0]]

\* setStation dispatches prompts-changed exactly when it gets past its guard
Dispatches(d, index) == index # d.activeIndex

handlePointerDown(d, angle) ==
    [d EXCEPT !.startAngle = angle, !.startRotation = d.rotation,
              !.dragging = TRUE]

\* handlePointerMove up to its call of setStation: the rotation and the index
Turned(d, angle) ==
    LET raw == angle - d.startAngle
        delta == IF raw > HalfTurn THEN raw - Circle
                 ELSE IF raw < -HalfTurn THEN raw + Circle
                 ELSE raw
    IN (d.startRotation + delta + Circle) % Circle

StationAt(rot) ==
    LET segmentSize == Circle \div Count
        rawIndex == ((rot + segmentSize \div 2) % Circle) \div segmentSize
    IN Max(0, Min(Count - 1, rawIndex))

handlePointerMove(d, angle) ==
    setStation([d EXCEPT !.rotation = Turned(d, angle)],
               StationAt(Turned(d, angle)))

handlePointerUp(d) ==
    [d EXCEPT !.dragging = FALSE,
              !.rotation = d.activeIndex * (Circle \div Count)]

\* variant: the frequency is computed from the station's number, counted from 1
promptsChanged_countsFromOne(w, detail) ==
    LET on == {k \in 0..Count - 1 : detail[k] > 0}
        index == CHOOSE k \in on : \A j \in on : k <= j
    IN IF on = {} THEN w
       ELSE onStationChange(w, StationText(index), Frequency(index + 1))

\* index.tsx, the prompts-changed listener: the first prompt of the map
\* with a positive weight decides the call; prompt-N is N
promptsChanged(w, detail) ==
    LET on == {k \in 0..Count - 1 : detail[k] > 0}
        index == CHOOSE k \in on : \A j \in on : k <= j
    IN IF on = {} THEN w
       ELSE onStationChange(w, StationText(index), Frequency(index))

\* the arguments of that call
PromptsChangedCall(detail) ==
    LET on == {k \in 0..Count - 1 : detail[k] > 0}
        index == CHOOSE k \in on : \A j \in on : k <= j
    IN [name |-> StationText(index), freq |-> Frequency(index)]

\* the states of the transport
PlaybackStates == {"stopped", "playing", "loading", "paused"}

\* variant: buffering counts as playing
playbackStateChanged_loadingCounts(w, detail) ==
    setMusicPlaying(w, detail \in {"playing", "loading"})

\* index.tsx, the playback-state-changed listener, its call of the announcer
playbackStateChanged(w, detail) == setMusicPlaying(w, detail = "playing")

(***************************************************************************)
(* Scheduling.                                                             *)
(***************************************************************************)
\* a continuation is queued as a microtask once the promise it awaits is
\* resolved; tasks (events, timer callbacks, service completions) wait for
\* the microtask queue to drain
Idle == Runnable(World) = {}

Room == Len(waiters) + Cardinality(nodes) < MaxInFlight

MinRem == CHOOSE r \in {t.rem : t \in timeouts} : \A t \in timeouts : r <= t.rem

\* time is observed at the next deadline and, while a settle timeout is
\* pending, every half settle period
AdvanceSteps ==
    IF timeouts = {} THEN {}
    ELSE {MinRem} \cup (IF Live("settle") # {} THEN {Tick} ELSE {})

Init ==
    /\ timer = 0
    /\ debounceTimer = 0
    /\ currentSource = 0
    /\ isPlayingMusic = FALSE
    /\ currentStationName = NoStation
    /\ currentFrequency = NoStation
    /\ stationId = 0
    /\ pendingBufferPromise = 0
    /\ timeouts = {}
    /\ gens = <<>>
    /\ waiters = <<>>
    /\ nodes = {}
    /\ lastCall = [op |-> "none", name |-> NoStation, freq |-> NoStation,
                   playing |-> FALSE, effective |-> FALSE, nth |-> FALSE]
    /\ sinceTuning = [quiet |-> FALSE, starts |-> 0]
    /\ DjIs(PromptDjMidi(buildInitialPrompts))

\* a station-change notification (prompts-changed listener, or main's first call)
StationChange(name, freq) ==
    /\ Idle
    /\ name # currentStationName => stationId < MaxStationId /\ (isPlayingMusic => Room)
    /\ Becomes(onStationChange(World, name, freq))
    /\ lastCall' = [op |-> "onStationChange", name |-> name, freq |-> freq,
                    playing |-> FALSE, effective |-> name # currentStationName,
                    nth |-> ~lastCall.nth]
    /\ sinceTuning' = IF name # currentStationName
                      THEN [quiet |-> TRUE, starts |-> 0]
                      ELSE sinceTuning
    /\ UNCHANGED dial

\* a playback-state-changed notification
MusicPlaying(playing) ==
    /\ Idle
    /\ playing => Room
    /\ Becomes(setMusicPlaying(World, playing))
    /\ lastCall' = [op |-> "setMusicPlaying", name |-> NoStation, freq |-> NoStation,
                    playing |-> playing, effective |-> FALSE, nth |-> ~lastCall.nth]
    /\ sinceTuning' = [quiet |-> FALSE, starts |-> 0]
    /\ UNCHANGED dial

\* time passes, never past a deadline
Advance(d) ==
    /\ Idle
    /\ d > 0
    /\ d <= MinRem
    /\ timeouts' = {[t EXCEPT !.rem = @ - d] : t \in timeouts}
    /\ UNCHANGED <<timer, debounceTimer, currentSource, isPlayingMusic,
                   currentStationName, currentFrequency, stationId,
                   pendingBufferPromise, gens, waiters, nodes, lastCall,
                   sinceTuning>>
    /\ UNCHANGED dial

SettleFires(t) ==
    /\ Idle
    /\ t.kind = "settle"
    /\ t.rem = 0
    /\ Becomes(settleCallback([World EXCEPT !.timeouts = @ \ {t}], t))
    /\ UNCHANGED <<lastCall, sinceTuning, dial>>

CountdownFires(t) ==
    /\ Idle
    /\ t.kind = "countdown"
    /\ t.rem = 0
    /\ Becomes(playPendingAnnouncement([World EXCEPT !.timeouts = @ \ {t}], t.myId))
    /\ UNCHANGED <<lastCall, sinceTuning, dial>>

StageCompletes(i, outcome) ==
    /\ Idle
    /\ gens[i].stage # "done"
    /\ gens[i].stage = "decode" => outcome # "empty"
    /\ Becomes(generateAnnouncementStep(World, i, outcome))
    /\ UNCHANGED <<lastCall, sinceTuning, dial>>

PlayResumes(outcome) ==
    /\ ~Idle
    /\ Becomes(playPendingAnnouncementResume(World, outcome))
    /\ sinceTuning' =
          IF /\ sinceTuning.quiet
             /\ \E x \in playPendingAnnouncementResume(World, outcome).nodes \ nodes :
                    x.started
          THEN [sinceTuning EXCEPT !.starts = @ + 1]
          ELSE sinceTuning
    /\ UNCHANGED <<lastCall, dial>>

SourceEnds(x) ==
    /\ Idle
    /\ x.started
    /\ Becomes(onended(World, x))
    /\ UNCHANGED <<lastCall, sinceTuning, dial>>

Next ==
    \/ \E i \in Dial : StationChange(StationText(i), Frequency(i))
    \/ \E i \in Dial : currentStationName # NoStation
                          /\ StationChange(currentStationName, Frequency(i))
    \/ \E playing \in BOOLEAN : MusicPlaying(playing)
    \/ \E d \in AdvanceSteps : Advance(d)
    \/ \E t \in timeouts : SettleFires(t)
    \/ \E t \in timeouts : CountdownFires(t)
    \/ \E i \in 1..Len(gens), outcome \in StageOutcomes : StageCompletes(i, outcome)
    \/ \E outcome \in WiringOutcomes : PlayResumes(outcome)
    \/ \E x \in nodes : SourceEnds(x)

Spec == Init /\ [][Next]_vars

(***************************************************************************)
(* The end-to-end scenario: time passes and due timeouts fire, the         *)
(* services answer every call with some outcome, queued continuations run, *)
(* and the Web Audio calls of a play attempt succeed.  The notifications   *)
(* stay free: they may stop at any point.  A service's answer is a task of *)
(* its own: it is held back only while a continuation is queued, which     *)
(* never lasts, so that it is delivered however often that happens.        *)
(***************************************************************************)
TimePasses == \E d \in AdvanceSteps : Advance(d)
SettleDue == \E t \in timeouts : SettleFires(t)
CountdownDue == \E t \in timeouts : CountdownFires(t)
ServiceAnswers == \E i \in 1..Len(gens), outcome \in StageOutcomes : StageCompletes(i, outcome)

LiveNext ==
    \/ \E i \in Dial : StationChange(StationText(i), Frequency(i))
    \/ \E i \in Dial : currentStationName # NoStation
                          /\ StationChange(currentStationName, Frequency(i))
    \/ \E playing \in BOOLEAN : MusicPlaying(playing)
    \/ TimePasses
    \/ SettleDue
    \/ CountdownDue
    \/ ServiceAnswers
    \/ PlayResumes("ok")
    \/ \E x \in nodes : SourceEnds(x)

LiveSpec ==
    /\ Init
    /\ [][LiveNext]_vars
    /\ WF_vars(TimePasses)
    /\ WF_vars(SettleDue)
    /\ WF_vars(CountdownDue)
    /\ SF_vars(ServiceAnswers)
    /\ WF_vars(PlayResumes("ok"))

(***************************************************************************)
(* The dial in use: index.tsx main has built the prompts, the dial and the *)
(* announcer and made its first call; the pointer then turns the dial.     *)
(* setStation dispatches prompts-changed synchronously, so that the        *)
(* listener's call of onStationChange is part of the pointer-move handler. *)
(***************************************************************************)
Constructed ==
    [timer |-> 0, debounceTimer |-> 0, currentSource |-> 0,
     isPlayingMusic |-> FALSE, currentStationName |-> NoStation,
     currentFrequency |-> NoStation, stationId |-> 0,
     pendingBufferPromise |-> 0, timeouts |-> {}, gens |-> <<>>,
     waiters |-> <<>>, nodes |-> {}]

AfterMain == onStationChange(Constructed, StationText(0), "88.0")

DialInit ==
    /\ Is(AfterMain)
    /\ lastCall = [op |-> "onStationChange", name |-> StationText(0),
                   freq |-> "88.0", playing |-> FALSE, effective |-> TRUE,
                   nth |-> TRUE]
    /\ sinceTuning = [quiet |-> TRUE, starts |-> 0]
    /\ DjIs(PromptDjMidi(buildInitialPrompts))

\* one pointer: it goes down on the dial, moves and comes up
PointerDown(angle) ==
    /\ ~dragging
    /\ DjBecomes(handlePointerDown(Dj, angle))
    /\ UNCHANGED <<timer, debounceTimer, currentSource, isPlayingMusic,
                   currentStationName, currentFrequency, stationId,
                   pendingBufferPromise, timeouts, gens, waiters, nodes, lastCall,
                   sinceTuning>>

PointerMove(angle) ==
    /\ dragging
    /\ Dispatches(Dj, StationAt(Turned(Dj, angle))) => stationId <= MaxTurns
    /\ DjBecomes(handlePointerMove(Dj, angle))
    /\ IF Dispatches(Dj, StationAt(Turned(Dj, angle)))
       THEN LET call == PromptsChangedCall(handlePointerMove(Dj, angle).prompts) IN
            /\ Becomes(promptsChanged(World, handlePointerMove(Dj, angle).prompts))
            /\ lastCall' = [op |-> "onStationChange", name |-> call.name,
                            freq |-> call.freq, playing |-> FALSE,
                            effective |-> call.name # currentStationName,
                            nth |-> ~lastCall.nth]
            /\ sinceTuning' = IF call.name # currentStationName
                              THEN [quiet |-> TRUE, starts |-> 0]
                              ELSE sinceTuning
       ELSE UNCHANGED <<timer, debounceTimer, currentSource, isPlayingMusic,
                        currentStationName, currentFrequency, stationId,
                        pendingBufferPromise, timeouts, gens, waiters, nodes,
                        lastCall, sinceTuning>>

PointerUp ==
    /\ dragging
    /\ DjBecomes(handlePointerUp(Dj))
    /\ UNCHANGED <<timer, debounceTimer, currentSource, isPlayingMusic,
                   currentStationName, currentFrequency, stationId,
                   pendingBufferPromise, timeouts, gens, waiters, nodes, lastCall,
                   sinceTuning>>

DialNext ==
    \/ \E angle \in Angles : PointerDown(angle)
    \/ \E angle \in Angles : PointerMove(angle)
    \/ PointerUp

DialSpec == DialInit /\ [][DialNext]_vars

(***************************************************************************)
(* The transport in use: after index.tsx main, the music helper reports    *)
(* its playback states, in any order, while the announcer's timers,        *)
(* generations and play attempts run.                                      *)
(***************************************************************************)
PlaybackStateChanged(detail) ==
    /\ Idle
    /\ detail = "playing" => Room
    /\ DjBecomes([Dj EXCEPT !.playbackState = detail])
    /\ Becomes(playbackStateChanged(World, detail))
    /\ lastCall' = [op |-> "setMusicPlaying", name |-> NoStation, freq |-> NoStation,
                    playing |-> (detail = "playing"), effective |-> FALSE,
                    nth |-> ~lastCall.nth]
    /\ sinceTuning' = [quiet |-> FALSE, starts |-> 0]

TransportNext ==
    \/ \E detail \in PlaybackStates : PlaybackStateChanged(detail)
    \/ \E d \in AdvanceSteps : Advance(d)
    \/ \E t \in timeouts : SettleFires(t)
    \/ \E t \in timeouts : CountdownFires(t)
    \/ \E i \in 1..Len(gens), outcome \in StageOutcomes : StageCompletes(i, outcome)
    \/ \E outcome \in WiringOutcomes : PlayResumes(outcome)
    \/ \E x \in nodes : SourceEnds(x)

TransportSpec == DialInit /\ [][TransportNext]_vars

(***************************************************************************)
(* Vocabulary of the properties.                                           *)
(***************************************************************************)
\* ARCHITECTURE.md section 7: the frequency of each station, by its number
StationTable ==
    <<"88.0", "89.5", "91.0", "92.5", "94.0", "95.5", "97.0", "98.5", "100.0",
      "101.5", "103.0", "104.5", "106.0", "107.5", "109.0", "110.5">>

\* PromptDjMidi.render: the frequency on the display
DisplayedFrequency(d) == toFixed1(880 + d.activeIndex * 15)

(***************************************************************************)
(* The state the properties speak of.                                      *)
(***************************************************************************)
\* the fields of the session and the timeouts they own
SessionState ==
    <<stationId, currentStationName, currentFrequency, isPlayingMusic,
      pendingBufferPromise, timer, debounceTimer, timeouts>>

\* what a listener can observe besides: the audio graph and the playing handle
Audible == <<nodes, currentSource>>

\* the requests of sequence gs issued for epoch e
GensOf(gs, e) == {i \in 1..Len(gs) : gs[i].id = e}
GensFor(e) == GensOf(gens, e)

\* the step delivers a notification
CallStep(op) == lastCall' # lastCall /\ lastCall'.op = op

\* the step is the settle callback issuing a generation request
RequestStep == Len(gens') > Len(gens)

\* the step is the continuation of a play attempt; Resumed is that attempt
ResumeStep == ~Idle /\ waiters' = Without(waiters, FirstRunnable(World))
Resumed == waiters[FirstRunnable(World)]

(***************************************************************************)
(* C1  Staleness discard: every node a step connects plays a buffer        *)
(* generated for the epoch, station name and frequency current in that     *)
(* step; a step in which a generation of a superseded epoch advances or    *)
(* resolves, and a step that resumes a play attempt of a superseded epoch, *)
(* changes neither the session state nor the audio graph.                  *)
(***************************************************************************)
C1_StalenessDiscard ==
    [][ /\ \A x \in nodes' \ nodes :
              /\ gens[x.gen].id = stationId'
              /\ gens[x.gen].station = currentStationName'
              /\ gens[x.gen].freq = currentFrequency'
        /\ \A i \in 1..Len(gens) :
              gens[i].id # stationId /\ gens'[i] # gens[i]
                  => UNCHANGED <<SessionState, Audible>>
        /\ ResumeStep /\ Resumed.id # stationId
                  => UNCHANGED <<SessionState, Audible>>
      ]_vars

\* a generation of a superseded epoch has resolved to a buffer while music
\* plays and a play attempt is suspended on it
C1_Witness ==
    \E k \in 1..Len(waiters) :
        LET g == gens[waiters[k].gen] IN
        /\ g.stage = "done" /\ g.buffer
        /\ g.id < stationId
        /\ waiters[k].id = g.id
        /\ isPlayingMusic

(***************************************************************************)
(* C2  Idempotent retune: a step that delivers onStationChange with the    *)
(* name that is current changes nothing: epoch, name, frequency, pending   *)
(* result, both timer handles, the pending timeouts and their remaining    *)
(* time, whatever frequency the call carries.                              *)
(***************************************************************************)
C2_IdempotentRetune ==
    [][ CallStep("onStationChange") /\ lastCall'.name = currentStationName
            => UNCHANGED <<SessionState, Audible, gens, waiters>>
      ]_vars

\* a retune with the current name and another frequency was delivered while
\* both timers were part-way through their delays
C2_Witness ==
    /\ lastCall.op = "onStationChange"
    /\ lastCall.name = currentStationName
    /\ lastCall.freq # currentFrequency
    /\ \E t \in Live("countdown") : t.h = timer /\ t.rem < D_announce
    /\ \E t \in Live("settle") : t.h = debounceTimer /\ 0 < t.rem /\ t.rem < D_settle

(***************************************************************************)
(* C3  Debounce coalescing, as stated: the generation request that a run   *)
(* of onStationChange calls ends in carries the station name and the       *)
(* frequency of the last call.                                             *)
(***************************************************************************)
C3_LastCallDecides ==
    [][ RequestStep /\ lastCall.op = "onStationChange"
            => /\ gens'[Len(gens')].station = lastCall.name
               /\ gens'[Len(gens')].freq = lastCall.freq
      ]_vars

(***************************************************************************)
(* C3 amended  Debounce coalescing over effective calls: every call with a *)
(* new name leaves exactly one settle timeout pending, with the full       *)
(* D_settle to run and the call's name and frequency, so calls less than   *)
(* D_settle apart never let it fire; a request is issued only by a settle  *)
(* timeout that has run out, one at a time, for the current epoch, name    *)
(* and frequency; while a settle timeout is pending the current epoch has  *)
(* no request, and no epoch ever has two.                                  *)
(***************************************************************************)
C3_DebounceCoalescing ==
    [][ /\ stationId' # stationId
            => /\ CallStep("onStationChange")
               /\ \E t \in timeouts' :
                     /\ Live("settle")' = {t}
                     /\ t.h = debounceTimer'
                     /\ t.rem = D_settle
                     /\ t.stationName = lastCall'.name
                     /\ t.frequency = lastCall'.freq
               /\ Len(gens') = Len(gens)
        /\ RequestStep
            => /\ Len(gens') = Len(gens) + 1
               /\ \E t \in Live("settle") : t.rem = 0 /\ timeouts' = timeouts \ {t}
               /\ Live("settle")' = {}
               /\ gens'[Len(gens')].id = stationId
               /\ gens'[Len(gens')].station = currentStationName
               /\ gens'[Len(gens')].freq = currentFrequency
               /\ pendingBufferPromise' = Len(gens')
        /\ Live("settle")' # {} => GensOf(gens', stationId') = {}
        /\ \A e \in 1..MaxStationId + 1 : Cardinality(GensOf(gens', e)) <= 1
      ]_vars

\* two effective calls less than D_settle apart were followed by one request,
\* for the second call
C3_Witness ==
    /\ stationId = 2
    /\ Len(gens) = 1
    /\ gens[1].id = 2
    /\ gens[1].station = currentStationName
    /\ gens[1].freq = currentFrequency
    /\ lastCall.op = "onStationChange" /\ lastCall.effective
    /\ Live("settle") = {}

(***************************************************************************)
(* C4  No announcement without settle: an epoch that is superseded before  *)
(* its settle timeout fired never gets a generation request, every request *)
(* carries the name and frequency current when it is issued, never those   *)
(* of the station tuned through, and no node ever plays for such an epoch. *)
(***************************************************************************)
C4_NoAnnouncementWithoutSettle ==
    [][ /\ \A e \in 1..MaxStationId + 1 :
              e < stationId' /\ GensFor(e) = {} => GensOf(gens', e) = {}
        /\ \A i \in 1..Len(gens') :
              i > Len(gens) => /\ gens'[i].station = currentStationName
                               /\ gens'[i].freq = currentFrequency
                               /\ gens'[i].id = stationId
        /\ \A t \in Live("settle")' : t.stationName = currentStationName'
        /\ \A x \in nodes' : GensOf(gens', gens'[x.gen].id) # {}
      ]_vars

\* the first station was tuned through: it has no request, the second
\* station's announcement is playing
C4_Witness ==
    /\ stationId = 2
    /\ GensFor(1) = {}
    /\ \E x \in nodes : x.started /\ gens[x.gen].id = 2
                          /\ gens[x.gen].station = currentStationName


(***************************************************************************)
(* C5  Countdown independence from generation latency: an effective        *)
(* station change made while music plays arms, in that step, the one       *)
(* countdown, for the new epoch and with the full D_announce; between      *)
(* notifications a pending countdown only loses the time that passes and   *)
(* is taken away only by firing with no time left, none is armed, and a    *)
(* step of a generation (request, stage completion, resolution) leaves the *)
(* countdown and its handle as they are.                                   *)
(***************************************************************************)
C5_CountdownIndependent ==
    [][ /\ stationId' # stationId /\ isPlayingMusic
            => \E t \in timeouts' :
                 /\ Live("countdown")' = {t}
                 /\ t.h = timer'
                 /\ t.rem = D_announce
                 /\ t.myId = stationId'
        /\ lastCall' = lastCall
            => /\ \A t \in Live("countdown") :
                     \/ t \in timeouts'
                     \/ t.rem = 0 /\ timeouts' = timeouts \ {t}
                     \/ \E u \in timeouts' :
                          /\ u.h = t.h
                          /\ u.rem < t.rem
                          /\ timeouts' = {[v EXCEPT !.rem = @ - (t.rem - u.rem)] :
                                              v \in timeouts}
               /\ {t.h : t \in Live("countdown")'} \subseteq
                      {t.h : t \in Live("countdown")}
        /\ gens' # gens => Live("countdown")' = Live("countdown") /\ timer' = timer
      ]_vars

\* the countdown armed by an effective change made while playing has fired,
\* D_announce later, with the generation of that epoch still in flight
C5_Witness ==
    /\ lastCall.op = "onStationChange" /\ lastCall.effective
    /\ isPlayingMusic
    /\ Live("countdown") = {}
    /\ \E k \in 1..Len(waiters) :
          /\ waiters[k].id = stationId
          /\ gens[waiters[k].gen].stage \in {"script", "tts", "decode"}

(***************************************************************************)
(* C6  Pause suppresses playback: setMusicPlaying(false) leaves no         *)
(* countdown pending, none is pending in any state where isPlayingMusic is *)
(* false, and a step connects a node only if isPlayingMusic is true before *)
(* and after it.                                                           *)
(***************************************************************************)
C6_PauseSuppressesPlayback ==
    [][ /\ CallStep("setMusicPlaying") /\ ~lastCall'.playing
            => Live("countdown")' = {} /\ ~isPlayingMusic'
        /\ nodes' \ nodes # {} => isPlayingMusic /\ isPlayingMusic'
        /\ ~isPlayingMusic' => Live("countdown")' = {}
      ]_vars

\* music was paused with the current epoch's generation resolved to audio
\* and a play attempt suspended on it about to resume: nothing plays
C6_Witness ==
    /\ ~isPlayingMusic
    /\ lastCall.op = "setMusicPlaying" /\ ~lastCall.playing
    /\ pendingBufferPromise # 0
    /\ gens[pendingBufferPromise].stage = "done"
    /\ gens[pendingBufferPromise].buffer
    /\ gens[pendingBufferPromise].id = stationId
    /\ waiters # <<>>
    /\ Head(waiters) = [id |-> stationId, gen |-> pendingBufferPromise]
    /\ nodes = {}

(***************************************************************************)
(* C7  Resume arms a fresh countdown: a step that takes isPlayingMusic     *)
(* from false to true with a station tuned is a setMusicPlaying call that  *)
(* keeps the epoch and leaves exactly one countdown pending, for the       *)
(* current epoch and with the full D_announce; while isPlayingMusic is     *)
(* false no countdown is pending, so none advances.                        *)
(***************************************************************************)
C7_ResumeArmsFreshCountdown ==
    [][ /\ ~isPlayingMusic /\ isPlayingMusic' /\ currentStationName # NoStation
            => /\ CallStep("setMusicPlaying")
               /\ stationId' = stationId
               /\ \E t \in timeouts' :
                     /\ Live("countdown")' = {t}
                     /\ t.h = timer'
                     /\ t.rem = D_announce
                     /\ t.myId = stationId
        /\ ~isPlayingMusic' => Live("countdown")' = {} /\ timer' = 0
      ]_vars

\* a countdown of the current epoch ran out earlier (its play attempt is
\* suspended); after a pause, the resume armed a countdown with full duration
C7_Witness ==
    /\ lastCall.op = "setMusicPlaying" /\ lastCall.playing
    /\ \E t \in Live("countdown") :
          t.h = timer /\ t.rem = D_announce /\ t.myId = stationId
    /\ \E k \in 1..Len(waiters) : waiters[k].id = stationId

(***************************************************************************)
(* C8  End-to-end liveness: once an effective station change to epoch e,   *)
(* made while music plays, is the last notification delivered and the      *)
(* request of e is still to be issued, then eventually a source playing    *)
(* the buffer of e is started, unless another notification arrives or the  *)
(* generation of e resolves to absence.  A node is connected only by the   *)
(* resumption of a play attempt of the current epoch; a play attempt is    *)
(* suspended only by the countdown of the current epoch firing with no     *)
(* time left; and a play attempt whose generation has resolved resumes     *)
(* before anything else happens.                                           *)
(***************************************************************************)
Tuned(e) ==
    /\ stationId = e
    /\ lastCall.op = "onStationChange" /\ lastCall.effective
    /\ isPlayingMusic

Played(e) == \E x \in nodes : x.started /\ gens[x.gen].id = e

Absent(e) == \E i \in GensFor(e) : gens[i].stage = "done" /\ ~gens[i].buffer

C9_MissedAnnouncementSilent ==
    [][ /\ ResumeStep /\ ~gens[Resumed.gen].buffer
            => UNCHANGED <<SessionState, Audible, gens>>
        /\ \A i \in 1..Len(gens) :
              gens[i].stage # "done" /\ gens'[i].stage = "done" /\ ~gens'[i].buffer
                  => UNCHANGED <<SessionState, Audible, waiters>>
      ]_vars

\* the countdown fired while music plays and the generation it awaits, of
\* the current epoch, has resolved to absence
C9_Witness ==
    /\ ~Idle
    /\ ~gens[Resumed.gen].buffer
    /\ Resumed.id = stationId
    /\ gens[Resumed.gen].id = stationId
    /\ isPlayingMusic

(***************************************************************************)
(* C10  At most one announcement is audibly playing: the sources started   *)
(* and not yet ended number at most one.                                   *)
(***************************************************************************)
C10_AtMostOnePlaying == Cardinality({x \in nodes : x.started}) <= 1

(***************************************************************************)
(* C11  Timer slot exclusivity: at most one countdown timeout and at most  *)
(* one settle timeout are pending in any state, and the one pending is the *)
(* one the object holds the handle of; a step that arms a timeout leaves   *)
(* no other timeout of its kind pending, so a timeout that was replaced    *)
(* can never fire.                                                         *)
(***************************************************************************)
C11_TimerSlotExclusivity ==
    /\ [](/\ Cardinality(Live("countdown")) <= 1
          /\ Cardinality(Live("settle")) <= 1
          /\ \A t \in Live("countdown") : t.h = timer
          /\ \A t \in Live("settle") : t.h = debounceTimer)
    /\ [][ \A t \in timeouts' :
              (t.rem = D_announce /\ t.kind = "countdown" /\ CallStep("setMusicPlaying"))
              \/ (t.rem = D_settle /\ t.kind = "settle" /\ stationId' # stationId)
                  => {u \in timeouts' : u.kind = t.kind} = {t}
         ]_vars

\* the second of two effective changes made while music plays was delivered
\* before the first one's settle timeout fired: both timers of the first
\* epoch were pending when those of the second were armed
C11_Witness ==
    /\ stationId = 2
    /\ lastCall.op = "onStationChange" /\ lastCall.effective
    /\ isPlayingMusic
    /\ gens = <<>>
    /\ \E t \in Live("countdown") : t.rem = D_announce /\ t.myId = 2
    /\ \E t \in Live("settle") : t.rem = D_settle

(***************************************************************************)
(* C12  Epoch monotonicity: stationId never decreases; a step changes it   *)
(* only by adding 1, and exactly the steps that deliver onStationChange    *)
(* with a name other than the current one do; setMusicPlaying, timer       *)
(* callbacks, generation steps and playback leave it alone.                *)
(***************************************************************************)
C12_EpochMonotonic ==
    [][ /\ stationId' >= stationId
        /\ stationId' # stationId
            => /\ stationId' = stationId + 1
               /\ CallStep("onStationChange")
               /\ lastCall'.name # currentStationName
        /\ CallStep("onStationChange") /\ lastCall'.name # currentStationName
            => stationId' = stationId + 1
        /\ CallStep("onStationChange") /\ lastCall'.name = currentStationName
            => stationId' = stationId
      ]_vars

\* after two effective changes, a pause and an announcement played to its
\* end, the epoch is still 2 and the generations carry epochs 1 and 2
C12_Witness ==
    /\ stationId = 2
    /\ lastCall.op = "setMusicPlaying"
    /\ Len(gens) = 2
    /\ gens[1].id = 1 /\ gens[2].id = 2
    /\ gens[2].stage = "done" /\ gens[2].buffer
    /\ waiters = <<>> /\ nodes = {}
    /\ timeouts = {}

(***************************************************************************)
(* C13  An announcement never plays while music is stopped: whenever a     *)
(* source is started and has not ended, isPlayingMusic is true.            *)
(***************************************************************************)
C13_NeverPlaysWhileStopped ==
    (\E x \in nodes : x.started) => isPlayingMusic

(***************************************************************************)
(* C14  The generation pipeline never propagates a fault: a generation is  *)
(* always either awaiting one of its three stages or resolved, to a buffer *)
(* or to absence, and never rejected; whatever the stage it awaits         *)
(* delivers, its next step leaves it so; a thrown error in any stage and   *)
(* an empty script or missing audio data resolve it to absence at once, so *)
(* the speech stage is entered only from a script stage that delivered     *)
(* text; and every generation requested is eventually resolved.            *)
(***************************************************************************)
C14_NeverPropagatesFault ==
    /\ \A n \in 1..MaxStationId :
          (Len(gens) >= n) ~> (Len(gens) >= n /\ gens[n].stage = "done")
    /\ [](\A i \in 1..Len(gens) :
             /\ gens[i].stage \in {"script", "tts", "decode", "done"}
             /\ gens[i].buffer => gens[i].stage = "done"
             /\ gens[i].stage # "done" =>
                  \A outcome \in StageOutcomes :
                     LET g == generateAnnouncementStep(World, i, outcome).gens[i] IN
                     /\ g.stage \in {"script", "tts", "decode", "done"}
                     /\ outcome = "throws" => g.stage = "done" /\ ~g.buffer
                     /\ outcome = "empty" /\ gens[i].stage \in {"script", "tts"}
                           => g.stage = "done" /\ ~g.buffer
                     /\ g.stage = "tts"
                           => gens[i].stage = "script" /\ outcome = "ok")
    /\ [][ \A i \in 1..Len(gens) :
              /\ gens[i].stage = "done" => gens'[i] = gens[i]
              /\ gens'[i].stage = "tts" => gens[i].stage \in {"script", "tts"}
         ]_vars

\* of two generations, the earlier resolved to a buffer and the later, of
\* the epoch still current, resolved to absence: a stage of it failed
C14_Witness ==
    /\ Len(gens) = 2
    /\ gens[1].stage = "done" /\ gens[1].buffer
    /\ gens[2].stage = "done" /\ ~gens[2].buffer
    /\ gens[2].id = stationId

(***************************************************************************)
(* C15  Per-stage staleness check in generation: a generation whose epoch  *)
(* is superseded when one of its stages (script, speech, decoding)         *)
(* completes resolves to absence in that step: it never resolves to a      *)
(* playable buffer and never goes on to the speech stage.                  *)
(***************************************************************************)
C15_StaleResolvesToAbsence ==
    [][ \A i \in 1..Len(gens) :
           gens[i].id # stationId /\ gens'[i] # gens[i]
               => /\ gens'[i].stage = "done"
                  /\ ~gens'[i].buffer
      ]_vars

(***************************************************************************)
(* C16  Radio-mode single active station: the dial starts on prompt-0 and, *)
(* in every state, activeIndex lies in 0..Count-1, the prompt at           *)
(* activeIndex has weight 1 and every other prompt weight 0; the active    *)
(* prompt is the one last selected: the station whose segment of the       *)
(* circle (half a segment either side of its centre) holds the rotation    *)
(* the pointer gave the dial, and a step changes the weights only by       *)
(* moving the 1 to the station selected in that step.                      *)
(***************************************************************************)
C16_SingleActiveStation ==
    /\ activeIndex = 0
    /\ [](/\ activeIndex \in 0..Count - 1
          /\ DOMAIN prompts = 0..Count - 1
          /\ \A i \in 0..Count - 1 : prompts[i] = (IF i = activeIndex THEN 1 ELSE 0)
          /\ Cardinality({i \in 0..Count - 1 : prompts[i] = 1}) = 1
          /\ \E turn \in {-Circle, 0, Circle} :
                LET centre == activeIndex * 2250 + turn IN
                centre - 1125 <= rotation /\ rotation < centre + 1125)
    /\ [][ prompts' # prompts
              => /\ activeIndex' # activeIndex
                 /\ prompts'[activeIndex] = 0
                 /\ prompts'[activeIndex'] = 1
         ]_vars

\* the dial was turned from station to station MaxTurns times, last to a
\* station other than the first two, and released, which snapped it
C16_Witness ==
    /\ stationId = MaxTurns + 1
    /\ activeIndex \notin {0, 1}
    /\ prompts[0] = 0 /\ prompts[activeIndex] = 1
    /\ ~dragging
    /\ rotation = activeIndex * 2250

(***************************************************************************)
(* C17  Post-state of an effective station change: the step that delivers  *)
(* onStationChange with a name other than the current one records the      *)
(* name and frequency of the call, leaves the pending result null, leaves  *)
(* none of the timeouts that were pending, leaves exactly one settle       *)
(* timeout, held in debounceTimer, with the full D_settle and the call's   *)
(* name and frequency, and leaves a countdown (one, held in timer, for the *)
(* new epoch, with the full D_announce) exactly if isPlayingMusic is true; *)
(* isPlayingMusic, the generations and the play attempts are untouched.    *)
(***************************************************************************)
C17_EffectiveChangePostState ==
    [][ CallStep("onStationChange") /\ lastCall'.name # currentStationName
            => /\ currentStationName' = lastCall'.name
               /\ currentFrequency' = lastCall'.freq
               /\ pendingBufferPromise' = 0
               /\ {t.h : t \in timeouts'} = {debounceTimer'} \cup
                      (IF isPlayingMusic THEN {timer'} ELSE {})
               /\ \A t \in timeouts' :
                     /\ t \notin timeouts
                     /\ t.kind = "settle"
                           => /\ t.h = debounceTimer'
                              /\ t.rem = D_settle
                              /\ t.stationName = lastCall'.name
                              /\ t.frequency = lastCall'.freq
                     /\ t.kind = "countdown"
                           => /\ t.h = timer'
                              /\ t.rem = D_announce
                              /\ t.myId = stationId'
               /\ Cardinality(Live("settle")') = 1
               /\ Cardinality(Live("countdown")') = (IF isPlayingMusic THEN 1 ELSE 0)
               /\ ~isPlayingMusic => timer' = 0
               /\ UNCHANGED <<isPlayingMusic, gens, waiters, Audible>>
      ]_vars

\* an effective change was delivered while music played and the generation
\* of the epoch left behind was held as the pending result, in flight
C17_Witness ==
    /\ stationId = 2
    /\ lastCall.op = "onStationChange" /\ lastCall.effective
    /\ isPlayingMusic
    /\ Len(gens) = 1 /\ gens[1].id = 1 /\ gens[1].stage # "done"
    /\ pendingBufferPromise = 0
    /\ \E t \in Live("settle") : t.rem = D_settle
    /\ \E t \in Live("countdown") : t.rem = D_announce

(***************************************************************************)
(* C18  Armed-countdown invariant: whenever a countdown timeout is pending *)
(* (with time left or due), isPlayingMusic is true, a station is tuned and *)
(* the epoch the timeout captured is the current one.                      *)
(***************************************************************************)
C18_ArmedCountdown ==
    \A t \in Live("countdown") :
        /\ isPlayingMusic
        /\ currentStationName # NoStation
        /\ t.myId = stationId

\* after a pause that cancelled the countdown of epoch 2, music resumed and
\* the countdown armed then is part-way through its delay
C18_Witness ==
    /\ stationId = 2
    /\ lastCall.op = "setMusicPlaying" /\ lastCall.playing
    /\ \E t \in Live("countdown") : 0 < t.rem /\ t.rem < D_announce
    /\ Len(gens) = 2

(***************************************************************************)
(* C19  A setMusicPlaying(true) notification delivered while               *)
(* isPlayingMusic is already true leaves the countdown that is pending,    *)
(* its handle and its remaining time unchanged.                            *)
(***************************************************************************)
C19_RepeatedPlayingKeepsCountdown ==
    [][ CallStep("setMusicPlaying") /\ lastCall'.playing /\ isPlayingMusic
            => UNCHANGED <<timer, timeouts>>
      ]_vars

(***************************************************************************)
(* The settle timeout of an epoch is armed no later than any countdown of  *)
(* that epoch and runs out D_announce - D_settle sooner at the least, and  *)
(* its callback sets the pending result: a countdown that is due always    *)
(* finds a generation requested for its epoch.  The case of C20, a         *)
(* countdown firing for the current epoch with the pending result null,    *)
(* is the negation of this and is reached in no behaviour.                 *)
(***************************************************************************)
CountdownFindsRequest ==
    \A t \in Live("countdown") :
        t.rem < D_announce - D_settle
            => /\ pendingBufferPromise # 0
               /\ gens[pendingBufferPromise].id = stationId

(***************************************************************************)
(* C21  Re-validation after the wait: the step that resumes a suspended    *)
(* play attempt connects a node only if the epoch the attempt captured is  *)
(* the current one, isPlayingMusic is true and the generation it awaited   *)
(* resolved to a buffer, and then the node plays that generation; if the   *)
(* epoch has changed or isPlayingMusic is false at that moment, the step   *)
(* changes nothing but the attempt's own end.                              *)
(***************************************************************************)
C21_RevalidationAfterWait ==
    [][ /\ nodes' # nodes /\ nodes' \ nodes # {}
            => /\ ResumeStep
               /\ Resumed.id = stationId
               /\ isPlayingMusic
               /\ gens[Resumed.gen].buffer
               /\ \A x \in nodes' \ nodes : x.gen = Resumed.gen
        /\ ResumeStep /\ (Resumed.id # stationId \/ ~isPlayingMusic)
            => UNCHANGED <<SessionState, Audible, gens>>
      ]_vars

\* music was stopped and started again while a play attempt of the current
\* epoch was suspended; the generation has now resolved to a buffer and the
\* attempt is about to resume
C21_Witness ==
    /\ ~Idle
    /\ Resumed.id = stationId
    /\ gens[Resumed.gen].buffer
    /\ isPlayingMusic
    /\ lastCall.op = "setMusicPlaying" /\ lastCall.playing
    /\ \E t \in Live("countdown") : t.rem < D_announce

(***************************************************************************)
(* C22  The pending result belongs to the current epoch: whenever          *)
(* pendingBufferPromise is non-null it is the generation requested with    *)
(* the current stationId, station name and frequency; a play attempt       *)
(* suspends on the generation in the slot only under the current epoch,    *)
(* and every node connected plays a generation of the current epoch.       *)
(***************************************************************************)
C22_PendingOfCurrentEpoch ==
    /\ [](pendingBufferPromise # 0
             => /\ pendingBufferPromise \in 1..Len(gens)
                /\ gens[pendingBufferPromise].id = stationId
                /\ gens[pendingBufferPromise].station = currentStationName
                /\ gens[pendingBufferPromise].freq = currentFrequency)
    /\ [][ /\ Len(waiters') > Len(waiters)
               => /\ waiters'[Len(waiters')].gen = pendingBufferPromise
                  /\ waiters'[Len(waiters')].id = stationId
                  /\ gens[pendingBufferPromise].id = stationId
           /\ \A x \in nodes' \ nodes : gens[x.gen].id = stationId
           /\ stationId' # stationId => pendingBufferPromise' = 0
         ]_vars

\* the slot holds the generation of epoch 2 while the generation of epoch 1
\* is still in flight with a play attempt of epoch 1 suspended on it
C22_Witness ==
    /\ stationId = 2
    /\ pendingBufferPromise = 2
    /\ gens[1].id = 1 /\ gens[1].stage # "done"
    /\ \E k \in 1..Len(waiters) : waiters[k] = [id |-> 1, gen |-> 1]

(***************************************************************************)
(* C23  No double playback from concurrent play attempts: when the         *)
(* resumption of a play attempt starts a source, no other play attempt     *)
(* that passes the same re-validation is left suspended on the generation  *)
(* that has just resolved.                                                 *)
(***************************************************************************)
C23_NoDoublePlayback ==
    [][ ResumeStep /\ (\E x \in nodes' \ nodes : x.started)
            => \A k \in 1..Len(waiters') :
                  ~(/\ waiters'[k].gen = Resumed.gen
                    /\ waiters'[k].id = stationId'
                    /\ isPlayingMusic')
      ]_vars

(***************************************************************************)
(* C24  No connection outlives playback: when no announcement is playing,  *)
(* no node made by a play attempt is connected to the shared output nodes. *)
(***************************************************************************)
C24_NoConnectionOutlivesPlayback ==
    (\A x \in nodes : ~x.started) => nodes = {}

(***************************************************************************)
(* C25  Defensive disownership of the playing handle: the step in which a  *)
(* source ends sets currentSource to null exactly if it referred to that   *)
(* source and otherwise leaves it as it is; whenever currentSource is      *)
(* non-null it refers to a source that has started and has not ended.      *)
(***************************************************************************)
C25_DefensiveDisownership ==
    /\ [](currentSource # 0
             => \E x \in nodes : x.n = currentSource /\ x.started)
    /\ [][ \A x \in nodes \ nodes' :
              /\ x.started
              /\ currentSource = x.n => currentSource' = 0
              /\ currentSource # x.n => currentSource' = currentSource
         ]_vars

\* of two sources playing at once the earlier has ended: the handle still
\* refers to the later one, which is playing
C25_Witness ==
    /\ nodes = {[n |-> 2, gen |-> 1, started |-> TRUE]}
    /\ currentSource = 2

(***************************************************************************)
(* C26  Transport mirroring: in every state isPlayingMusic is true exactly *)
(* if the playback state last reported is 'playing'; a report of any other *)
(* state leaves isPlayingMusic false and no countdown pending; a countdown *)
(* is pending only while the playback state is 'playing'.                  *)
(***************************************************************************)
C26_TransportMirroring ==
    /\ [](/\ isPlayingMusic <=> playbackState = "playing"
          /\ Live("countdown") # {} => playbackState = "playing")
    /\ [][ playbackState' \in {"stopped", "loading", "paused"} /\ lastCall' # lastCall
              => /\ ~isPlayingMusic'
                 /\ Live("countdown")' = {}
                 /\ timer' = 0
         ]_vars

\* 'loading' was reported while the countdown armed under 'playing' was
\* part-way through its delay: the countdown is gone
C26_Witness ==
    /\ playbackState = "loading"
    /\ lastCall.op = "setMusicPlaying" /\ ~lastCall.playing
    /\ ~isPlayingMusic
    /\ Live("countdown") = {}
    /\ Len(gens) = 1 /\ gens[1].stage # "done"
    /\ waiters # <<>>

(***************************************************************************)
(* C27  Dial/announcer agreement: after main and after every pointer       *)
(* handler of the dial, the announcer's currentStationName is the text of  *)
(* the dial's active prompt and its currentFrequency is the frequency of   *)
(* the active station, 88.0 + 1.5 x activeIndex to one decimal as listed   *)
(* in the station table, which is what the display shows; a step of the    *)
(* dial that keeps activeIndex delivers no notification and leaves the     *)
(* announcer as it was, and one that changes it adds 1 to the epoch.       *)
(***************************************************************************)
C27_DialAnnouncerAgreement ==
    /\ [](/\ currentStationName = DEFAULT_PROMPTS[activeIndex + 1]
          /\ currentFrequency = StationTable[activeIndex + 1]
          /\ currentFrequency = DisplayedFrequency(Dj))
    /\ [][ /\ activeIndex' = activeIndex
              => UNCHANGED <<SessionState, lastCall, prompts>>
           /\ activeIndex' # activeIndex
              => /\ stationId' = stationId + 1
                 /\ CallStep("onStationChange")
                 /\ lastCall'.name = DEFAULT_PROMPTS[activeIndex' + 1]
                 /\ lastCall'.freq = StationTable[activeIndex' + 1]
         ]_vars

\* the dial was turned half way round, to Sparkling Arpeggios on 100.0, and
\* then moved within that station's segment
C27_Witness ==
    /\ activeIndex = 8
    /\ currentFrequency = "100.0"
    /\ dragging
    /\ rotation # activeIndex * 2250
    /\ stationId >= 2

(***************************************************************************)
(* C28  At most one generation request per epoch: a step issues a request  *)
(* only as the callback of a settle timeout that has run out, issues one   *)
(* request, with the stationId, currentStationName and currentFrequency of *)
(* that moment, and only if the epoch has no request yet; in every state   *)
(* no two requests carry the same epoch.                                   *)
(***************************************************************************)
C28_OneRequestPerEpoch ==
    /\ [](\A i, j \in 1..Len(gens) : gens[i].id = gens[j].id => i = j)
    /\ [][ gens' # gens /\ Len(gens') # Len(gens)
              => /\ \E t \in Live("settle") :
                       /\ t.rem = 0
                       /\ t.h = debounceTimer
                       /\ timeouts' = timeouts \ {t}
                 /\ lastCall' = lastCall
                 /\ gens' = Append(gens, [id |-> stationId,
                                          station |-> currentStationName,
                                          freq |-> currentFrequency,
                                          stage |-> "script", buffer |-> FALSE])
                 /\ GensFor(stationId) = {}
         ]_vars

\* each of two epochs got its one request; the second epoch has since seen
\* a resolution, a playback and further notifications
C28_Witness ==
    /\ stationId = 2
    /\ Len(gens) = 2
    /\ gens[1].id = 1 /\ gens[2].id = 2
    /\ gens[2].stage = "done"
    /\ \E x \in nodes : x.started /\ x.gen = 2
    /\ lastCall.op = "onStationChange" /\ ~lastCall.effective

(***************************************************************************)
(* C29  setMusicPlaying frame: a step that delivers setMusicPlaying, true  *)
(* or false, leaves stationId, the station name and frequency, the pending *)
(* result, the settle timeout (handle and time left), the generations in   *)
(* flight, the suspended play attempts and the audio nodes unchanged; a    *)
(* settle timeout leaves only by running out and issuing the request or by *)
(* an effective station change, whatever isPlayingMusic is.                *)
(***************************************************************************)
C29_SetMusicPlayingFrame ==
    [][ /\ CallStep("setMusicPlaying")
            => /\ UNCHANGED <<stationId, currentStationName, currentFrequency,
                              pendingBufferPromise, debounceTimer, gens,
                              waiters, Audible>>
               /\ Live("settle")' = Live("settle")
               /\ isPlayingMusic' = lastCall'.playing
        /\ \A t \in Live("settle") :
              (\A u \in timeouts' : u.h # t.h \/ u.kind # "settle")
                  => \/ t.rem = 0 /\ RequestStep
                     \/ stationId' # stationId
      ]_vars

\* with music not playing and a pause notification the last one delivered,
\* the settle timeout of the first tuning ran out and issued its request
C29_Witness ==
    /\ stationId = 1
    /\ ~isPlayingMusic
    /\ lastCall.op = "setMusicPlaying" /\ ~lastCall.playing
    /\ Len(gens) = 1 /\ gens[1].stage = "script"
    /\ pendingBufferPromise = 1
    /\ timeouts = {}
    /\ waiters = <<>> /\ nodes = {}

(***************************************************************************)
(* C30  Playback does not consume the pending result: a step changes       *)
(* pendingBufferPromise only as an effective station change, to null, or   *)
(* as the settle callback, to the request it issues; a countdown that      *)
(* fires suspends a play attempt on the generation in the slot, whether or *)
(* not it was played before, and the attempt, once validated, plays it.    *)
(***************************************************************************)
C30_PlaybackKeepsPending ==
    [][ /\ pendingBufferPromise' # pendingBufferPromise
            => \/ stationId' # stationId /\ pendingBufferPromise' = 0
               \/ RequestStep /\ pendingBufferPromise' = Len(gens')
        /\ \A t \in Live("countdown") :
              t \notin timeouts' /\ t.rem = 0 /\ lastCall' = lastCall
                  => /\ pendingBufferPromise # 0
                     /\ waiters' = Append(waiters, [id |-> stationId,
                                                    gen |-> pendingBufferPromise])
        /\ ResumeStep /\ nodes' # nodes
            => /\ Resumed.gen = pendingBufferPromise
               /\ \E x \in nodes' : nodes' = nodes \cup {x} /\ x.gen = Resumed.gen
      ]_vars

\* the one generation of the session is playing for the second time: a
\* countdown armed after its first playback had started ran out, and the
\* first playback has ended since; the slot still holds the generation
C30_Witness ==
    /\ Len(gens) = 1
    /\ pendingBufferPromise = 1
    /\ nodes = {[n |-> 2, gen |-> 1, started |-> TRUE]}
    /\ waiters = <<>>
    /\ lastCall.op = "setMusicPlaying" /\ lastCall.playing

(***************************************************************************)
(* C31  Settle always precedes countdown: timeouts fire at their deadlines *)
(* in deadline order and D_settle < D_announce, so whenever a countdown    *)
(* fires for the current epoch with music playing, no settle timeout is    *)
(* pending any more, the pending result is non-null and is the generation  *)
(* requested for this epoch, and the play attempt goes on to its await:    *)
(* the return on an unset pending result (line 157) is never taken.        *)
(***************************************************************************)
C31_SettlePrecedesCountdown ==
    [][ \A t \in Live("countdown") :
            /\ CountdownFires(t)
            /\ t.myId = stationId
            /\ isPlayingMusic
            => /\ D_settle < D_announce
               /\ Live("settle") = {}
               /\ pendingBufferPromise # 0
               /\ gens[pendingBufferPromise].id = stationId
               /\ Len(waiters') = Len(waiters) + 1
      ]_vars

\* a countdown of the current epoch has fired with music playing while the
\* generation the settle callback requested was still in progress, and its
\* play attempt is suspended on it
C31_Witness ==
    /\ isPlayingMusic
    /\ pendingBufferPromise # 0
    /\ gens[pendingBufferPromise].stage # "done"
    /\ \E k \in 1..Len(waiters) :
           waiters[k] = [id |-> stationId, gen |-> pendingBufferPromise]

(***************************************************************************)
(* C32  One play attempt per arming, no self re-arm: a countdown that      *)
(* fires leaves the timeout table, arms nothing and suspends at most one   *)
(* play attempt; a play attempt that resumes arms nothing and starts at    *)
(* most one source; a countdown is armed only by an effective station      *)
(* change made while playing or by setMusicPlaying(true).  Hence, while no *)
(* playback-state notification has arrived since the tuning of the current *)
(* epoch, at most one announcement has started since that tuning.          *)
(***************************************************************************)
C32_OnePlayAttemptPerArming ==
    /\ [][ /\ \A t \in Live("countdown") :
                CountdownFires(t)
                    => /\ timeouts' = timeouts \ {t}
                       /\ nodes' = nodes
                       /\ \/ waiters' = waiters
                          \/ waiters' = Append(waiters, [id |-> t.myId,
                                                         gen |-> pendingBufferPromise])
           /\ ResumeStep
                => /\ timeouts' = timeouts
                   /\ nodes \subseteq nodes'
                   /\ Cardinality(nodes' \ nodes) <= 1
           /\ (\E t \in timeouts' \ timeouts :
                   t.kind = "countdown" /\ t.rem = D_announce)
                => \/ /\ CallStep("onStationChange")
                      /\ lastCall'.effective
                      /\ isPlayingMusic
                   \/ /\ CallStep("setMusicPlaying")
                      /\ lastCall'.playing
         ]_vars
    /\ [](sinceTuning.quiet => sinceTuning.starts <= 1)

\* the station was tuned while music was playing and no playback-state
\* notification came after; its one announcement has started and ended,
\* and no timeout is armed and no play attempt suspended any more
C32_Witness ==
    /\ sinceTuning = [quiet |-> TRUE, starts |-> 1]
    /\ isPlayingMusic
    /\ timeouts = {}
    /\ waiters = <<>>
    /\ nodes = {}

====
